---------------------------- MODULE Spec2Model ----------------------------
(*
  A model of the flight recommendation API (cwishva/MaestroPocAPI).

  Two iterations of the recommendation handler are in the repository and both
  are modelled; the variable `variant` says which one serves the request:

    "flight-search"  POST /flight-search of src/api/index.ts
    "recommend"      POST /recommend     of src/unnamed/part_000

  Units.  Money is an integer number of US cents (the code holds dollars as a
  floating point number).  Points are integers.  cpp, the only value the code
  obtains by a division, is kept as the exact quotient num/den of two integers
  (a record [num, den], den >= 0); den = 0 is the IEEE-754 result of dividing
  by zero: +Infinity (num > 0), -Infinity (num < 0), NaN (num = 0).
*)
EXTENDS Integers, Sequences, FiniteSets, TLC

VARIABLES
  variant,            \* which handler serves the request
  req,                \* req.body of the request being served
  pc,                 \* the handler's position (its awaits)
  amadeusToken,       \* the module-level token variable
  cashFlightsNested,  \* results of the fetchCashFlights calls, by call index
  seatsAeroResults,   \* results of the getSeatsAeroFlights calls, by cabin index
  allFlights,         \* the handler's allFlights after the combine loop
  response,           \* what res.status().json() sent: [status, body]
  issued,             \* the upstream calls the request has made
  settled,            \* the calls that resolved or failed, in that order
  other,              \* the locals of a second request whose handler is suspended
  acquired,           \* how many times getAmadeusToken has stored a token
  timers,             \* the acquisitions whose setTimeout callback is pending
  sentToken           \* the token argument of the request's fetchCashFlights calls

vars == <<variant, req, pc, amadeusToken, cashFlightsNested, seatsAeroResults,
          allFlights, response, issued, settled, other, acquired, timers,
          sentToken>>

-----------------------------------------------------------------------------
(* JavaScript values *)

\* null where the code holds a number (cash_price: null)
null == -1
\* null / undefined where the code holds a string (return_date: null)
nullStr == "null"
\* the initial cash_price of the reduce that picks the cash fallback
Infinity == 2000000000

\* JavaScript truthiness of a number-or-null: null, 0 (and NaN) are falsy
Truthy(x) == x # null /\ x # 0

\* a / b as IEEE-754 gives it, b >= 0, kept exact
Quot(a, b) == [num |-> a, den |-> b]
Zero == Quot(0, 1)
IsNaN(q) == q.den = 0 /\ q.num = 0
IsPosInf(q) == q.den = 0 /\ q.num > 0
IsNegInf(q) == q.den = 0 /\ q.num < 0
IsFinite(q) == q.den > 0

\* the sign of the JavaScript number a - b: -1, 0, 1, or 2 for NaN
SignOfDiff(a, b) ==
  IF IsNaN(a) \/ IsNaN(b) THEN 2
  ELSE IF a.den = 0 /\ b.den = 0
       THEN (IF (a.num > 0) = (b.num > 0) THEN 2      \* Inf - Inf is NaN
             ELSE IF a.num > 0 THEN 1 ELSE -1)
  ELSE IF a.den = 0 THEN (IF a.num > 0 THEN 1 ELSE -1)
  ELSE IF b.den = 0 THEN (IF b.num > 0 THEN -1 ELSE 1)
  ELSE IF a = b THEN 0
  ELSE LET d == a.num * b.den - b.num * a.den
       IN  IF d > 0 THEN 1 ELSE IF d < 0 THEN -1 ELSE 0

\* a >= b, a = b on JavaScript numbers (false when either is NaN)
QGeq(a, b) ==
  /\ ~IsNaN(a) /\ ~IsNaN(b)
  /\ \/ (IsPosInf(a))
     \/ (IsNegInf(b))
     \/ (IsFinite(a) /\ IsFinite(b) /\ a.num * b.den >= b.num * a.den)
QEq(a, b) == QGeq(a, b) /\ QGeq(b, a)
QGt(a, b) == QGeq(a, b) /\ ~QGeq(b, a)

\* Math.max(0, q)
MathMax0(q) == IF IsNaN(q) THEN q ELSE IF QGeq(q, Zero) THEN q ELSE Zero

\* String.prototype.toUpperCase on the cabin identifiers of the model
ToUpperCase(s) ==
  CASE s = "economy" -> "ECONOMY"
    [] s = "business" -> "BUSINESS"
    [] s = "premiumeconomy" -> "PREMIUMECONOMY"
    [] s = "first" -> "FIRST"
    [] s = "suite" -> "SUITE"
    [] s = "constructor" -> "CONSTRUCTOR"
    [] OTHER -> s

\* Array.prototype.slice(0, n)
Slice0(s, n) == SubSeq(s, 1, IF Len(s) < n THEN Len(s) ELSE n)

Range(s) == {s[i] : i \in DOMAIN s}

\* flat(): the concatenation of a sequence of sequences
RECURSIVE Flat(_)
Flat(ss) == IF ss = <<>> THEN <<>> ELSE Head(ss) \o Flat(Tail(ss))


-----------------------------------------------------------------------------
(* The award source (Seats.aero): field mapping and normaliser *)

\* CAD_TO_USD as hundredths: 0.73 in index.ts, 0.72 in part_000
CAD_TO_USD(v) == IF v = "flight-search" THEN 73 ELSE 72

cabinMapFlightSearch ==
  [economy |->
     [available |-> "YAvailable", cost |-> "YMileageCostRaw",
      taxes |-> "YTotalTaxesRaw", direct |-> "YDirect", airline |-> "YAirlines",
      airlinedirect |-> "YDirectAirlines", remainingSeats |-> "YRemainingSeats",
      currency |-> "TaxesCurrency"],
   premiumeconomy |->
     [available |-> "WAvailable", cost |-> "WMileageCostRaw",
      taxes |-> "WTotalTaxesRaw", direct |-> "WDirect", airline |-> "WAirlines",
      airlinedirect |-> "WDirectAirlines", remainingSeats |-> "WRemainingSeats",
      currency |-> "TaxesCurrency"],
   business |->
     [available |-> "JAvailable", cost |-> "JMileageCostRaw",
      taxes |-> "JTotalTaxesRaw", direct |-> "JDirect", airline |-> "JAirlines",
      airlinedirect |-> "JDirectAirlines", remainingSeats |-> "JRemainingSeats",
      currency |-> "TaxesCurrency"],
   first |->
     [available |-> "FAvailable", cost |-> "FMileageCostRaw",
      taxes |-> "FTotalTaxesRaw", direct |-> "FDirect", airline |-> "FAirlines",
      airlinedirect |-> "FDirectAirlines", remainingSeats |-> "FRemainingSeats",
      currency |-> "TaxesCurrency"]]

\* part_000 names the seats field by replacing "Available" in the availability
\* field's name by "RemainingSeatsRaw"; the result is kept here as remainingSeats
cabinMapRecommend ==
  [economy |->
     [available |-> "YAvailable", cost |-> "YMileageCostRaw",
      taxes |-> "YTotalTaxesRaw", direct |-> "YDirect", airline |-> "YAirlines",
      remainingSeats |-> "YRemainingSeatsRaw"],
   business |->
     [available |-> "JAvailable", cost |-> "JMileageCostRaw",
      taxes |-> "JTotalTaxesRaw", direct |-> "JDirect", airline |-> "JAirlines",
      remainingSeats |-> "JRemainingSeatsRaw"]]

cabinMap(v) == IF v = "flight-search" THEN cabinMapFlightSearch ELSE cabinMapRecommend

\* property names every object literal inherits from Object.prototype:
\* cabinMap[name] is then a function (or the prototype object), which is
\* truthy and has none of the field names
InheritedKeys == {"constructor", "toString", "valueOf", "hasOwnProperty", "__proto__"}
NoFields ==
  [available |-> "undefined", cost |-> "undefined", taxes |-> "undefined",
   direct |-> "undefined", airline |-> "undefined", airlinedirect |-> "undefined",
   remainingSeats |-> "undefined", currency |-> "undefined"]

\* a lookup that falls back to economy for every name outside the map
cabinFieldsOwn(v, cabin) ==
  IF cabin \in DOMAIN cabinMap(v) THEN cabinMap(v)[cabin] ELSE cabinMap(v).economy

\* cabinMap[cabin] || cabinMap.economy
cabinFields(v, cabin) ==
  IF cabin \in DOMAIN cabinMap(v) THEN cabinMap(v)[cabin]
  ELSE IF cabin \in InheritedKeys THEN NoFields
  ELSE cabinMap(v).economy

\* flight[cabinFields.airline].includes(",")
IncludesComma(s) == s \in {"AA,BA", "BA,AA"}

\* taxes_fees of one award record, in cents.  index.ts: the raw amount is in
\* minor units, (raw / 100) dollars, times 0.73 unless the currency is USD.
\* part_000: raw * 0.72 dollars, whatever the currency.
AwardTaxesFees(v, flight, cf) ==
  IF v = "flight-search"
  THEN (IF flight[cf.currency] # "USD"
        THEN (flight[cf.taxes] * CAD_TO_USD(v)) \div 100
        ELSE flight[cf.taxes])
  ELSE flight[cf.taxes] * CAD_TO_USD(v)

\* the filter of the award records
AwardFilter(v, flight, cf, nonstop) ==
  IF v = "flight-search"
  THEN flight[cf.available] /\ (flight[cf.direct] = nonstop)
  ELSE /\ flight[cf.available]
       /\ (~nonstop \/ flight[cf.direct])
       /\ ~IncludesComma(flight[cf.airline])

\* the offer made of one kept award record (id, origin, destination and trips
\* are copied from the record and never read again: left out)
AwardOffer(v, flight, cf, cabin, nonstop) ==
  IF v = "flight-search"
  THEN [airline |-> IF nonstop THEN flight[cf.airlinedirect] ELSE flight[cf.airline],
        points_used |-> flight[cf.cost],
        taxes_fees |-> AwardTaxesFees(v, flight, cf),
        direct |-> flight[cf.direct],
        departure_date |-> flight.Date,
        cabin |-> cabin,
        seats_available |-> flight[cf.remainingSeats],
        program |-> flight.Source]
  ELSE [airline |-> flight[cf.airline],
        points |-> flight[cf.cost],
        taxes_fees |-> AwardTaxesFees(v, flight, cf),
        direct |-> flight[cf.direct],
        departure_date |-> flight.Date,
        cabin |-> cabin,
        seats_available |-> IF flight[cf.remainingSeats] # 0
                            THEN flight[cf.remainingSeats] ELSE 1,
        program |-> flight.Source]

\* response.data.data.filter(...).map(...)
AwardOffers(v, data, cabin, nonstop) ==
  LET cf == cabinFields(v, cabin)
      Keep(flight) == AwardFilter(v, flight, cf, nonstop)
      \* flight[undefined] is undefined: with no field names nothing is kept
      kept == IF cf = NoFields THEN <<>> ELSE SelectSeq(data, Keep)
  IN  [i \in DOMAIN kept |-> AwardOffer(v, kept[i], cf, cabin, nonstop)]

\* getSeatsAeroFlights: out and ret are the award source's answers to the
\* outbound and to the return query, [ok, data]; the return query is made only
\* with a returnDate.  index.ts makes it by a call of itself, whose own catch
\* turns a failure into no return flights; in part_000 it is a second request
\* of the same try block, and its failure empties both lists.
getSeatsAeroFlights(v, out, ret, cabin, nonstop, returnDate) ==
  IF ~out.ok THEN [outboundFlights |-> <<>>, returnFlights |-> <<>>]
  ELSE IF returnDate = nullStr
       THEN [outboundFlights |-> AwardOffers(v, out.data, cabin, nonstop),
             returnFlights |-> <<>>]
  ELSE IF ~ret.ok
       THEN (IF v = "flight-search"
             THEN [outboundFlights |-> AwardOffers(v, out.data, cabin, nonstop),
                   returnFlights |-> <<>>]
             ELSE [outboundFlights |-> <<>>, returnFlights |-> <<>>])
  ELSE [outboundFlights |-> AwardOffers(v, out.data, cabin, nonstop),
        returnFlights |-> AwardOffers(v, ret.data, cabin, nonstop)]

-----------------------------------------------------------------------------
(* The cash-fare source (Amadeus): normaliser *)

\* departure.at.split("T")[0] and .split("T")[1].slice(0, 5)
DateOfAt(at) ==
  CASE at = "2025-06-01T08:00:00" -> "2025-06-01"
    [] at = "2025-06-01T15:00:00" -> "2025-06-01"
    [] at = "2025-06-02T08:00:00" -> "2025-06-02"
    [] at = "2025-06-08T09:00:00" -> "2025-06-08"
    [] at = "2025-06-09T09:00:00" -> "2025-06-09"

TimeOfAt(at) ==
  CASE at = "2025-06-01T08:00:00" -> "08:00"
    [] at = "2025-06-01T15:00:00" -> "15:00"
    [] at = "2025-06-02T08:00:00" -> "08:00"
    [] at = "2025-06-08T09:00:00" -> "09:00"
    [] at = "2025-06-09T09:00:00" -> "09:00"

\* parseFloat(flight.price.total), dollars, as cents
ParseFloat(total) ==
  CASE total = "10.00" -> 1000
    [] total = "20.00" -> 2000
    [] total = "650.00" -> 65000
    [] total = "10000.00" -> 1000000

\* parseInt(departure_time.split(":")[0])
HourOf(time) ==
  CASE time = "08:00" -> 8
    [] time = "09:00" -> 9
    [] time = "15:00" -> 15

\* One itinerary of a flight-offers answer, as the code reads it:
\*   carrierCode  itineraries[0].segments[0].carrierCode
\*   total        price.total
\*   segments     itineraries[0].segments.length
\*   departureAt  itineraries[0].segments[0].departure.at
\*   returnAt     itineraries[1].segments[0].departure.at, nullStr without itineraries[1]
\* The offer made of it (arrival_time, return_arrival_time and flightNumber
\* are built the same way as the departure times and never read: left out).
\* part_000 sets no cabin.
CashOffer(v, it, params) ==
  LET withReturn == params.tripType = "round" /\ it.returnAt # nullStr
      base == [airline |-> it.carrierCode,
               cash_price |-> ParseFloat(it.total),
               nonstop |-> (it.segments = 1),
               departure_time |-> TimeOfAt(it.departureAt),
               departure_date |-> DateOfAt(it.departureAt),
               return_departure_time |->
                 IF withReturn THEN TimeOfAt(it.returnAt) ELSE nullStr,
               return_date |-> IF withReturn THEN DateOfAt(it.returnAt) ELSE nullStr]
  IN  IF v = "flight-search" THEN base @@ [cabin |-> params.travelClass] ELSE base

CashOffers(v, data, params) == [i \in DOMAIN data |-> CashOffer(v, data[i], params)]

\* fetchCashFlights of index.ts: one query; a failure gives no flights
fetchCashFlights(answer, params) ==
  IF answer.ok THEN CashOffers("flight-search", answer.data, params) ELSE <<>>

\* one leg of the one-way fallback of part_000
OneWayLeg(it) ==
  [airline |-> it.carrierCode,
   cash_price |-> ParseFloat(it.total),
   nonstop |-> (it.segments = 1),
   departure_time |-> TimeOfAt(it.departureAt),
   departure_date |-> DateOfAt(it.departureAt)]

OneWayLegs(answer) ==
  IF answer.ok THEN [i \in DOMAIN answer.data |-> OneWayLeg(answer.data[i])] ELSE <<>>

\* for (outbound of outboundFlights) for (ret of returnFlights) if same airline push
CombineLegs(outs, rets) ==
  LET Pair(o, r) ==
        IF o.airline = r.airline
        THEN <<[airline |-> o.airline,
                cash_price |-> o.cash_price + r.cash_price,
                nonstop |-> (o.nonstop /\ r.nonstop),
                departure_time |-> o.departure_time,
                departure_date |-> o.departure_date,
                return_departure_time |-> r.departure_time,
                return_date |-> r.departure_date]>>
        ELSE <<>>
  IN  Flat([i \in DOMAIN outs |-> Flat([j \in DOMAIN rets |-> Pair(outs[i], rets[j])])])

\* fetchCashFlights of part_000.  a holds the cash source's answers to the
\* queries the function can make: joint1, joint2 (the two attempts of the joint
\* query), out1, ret1, out2, ret2 (the one-way queries of the two attempts of
\* the fallback).  An answer is read only if its query is made.
fetchCashFlightsRetry(a, params) ==
  LET first == IF a.joint1.ok THEN CashOffers("recommend", a.joint1.data, params) ELSE <<>>
      flights == IF Len(first) > 0 THEN first
                 ELSE IF a.joint2.ok THEN CashOffers("recommend", a.joint2.data, params)
                 ELSE first
      outs1 == OneWayLegs(a.out1)
      rets1 == OneWayLegs(a.ret1)
      done1 == Len(outs1) > 0 /\ Len(rets1) > 0
      outs == IF done1 THEN outs1 ELSE outs1 \o OneWayLegs(a.out2)
      rets == IF done1 THEN rets1 ELSE rets1 \o OneWayLegs(a.ret2)
  IN  IF Len(flights) = 0 /\ params.tripType = "round" /\ params.returnDate # nullStr
      THEN (IF Len(outs) > 0 /\ Len(rets) > 0 THEN CombineLegs(outs, rets) ELSE <<>>)
      ELSE flights

\* one query sent to the cash source: its kind, its nonStop parameter,
\* whether it returned an itinerary, and for a one-way query the fares it
\* returned
Query(kind, nonStop, answer) ==
  [kind |-> kind, nonStop |-> nonStop,
   some |-> (answer.ok /\ Len(answer.data) > 0),
   fares |-> IF kind = "joint" THEN {} ELSE Range(OneWayLegs(answer))]

\* the queries the earlier fetchCashFlights sends, in their order: the loop
\* over attempts = [{nonstop: params.nonstop}, {nonstop: false}] for the
\* joint query, left at the first non-empty result, then the same loop for
\* the two one-way queries of a round trip that has no itinerary yet
cashQueries(a, params) ==
  LET first == IF a.joint1.ok THEN CashOffers("recommend", a.joint1.data, params)
               ELSE <<>>
      flights == IF Len(first) > 0 THEN first
                 ELSE IF a.joint2.ok
                      THEN CashOffers("recommend", a.joint2.data, params)
                      ELSE first
      joint == IF Len(first) > 0
               THEN <<Query("joint", params.nonstop, a.joint1)>>
               ELSE <<Query("joint", params.nonstop, a.joint1),
                      Query("joint", FALSE, a.joint2)>>
      legs1 == <<Query("outbound", params.nonstop, a.out1),
                 Query("return", params.nonstop, a.ret1)>>
      legs == IF Len(OneWayLegs(a.out1)) > 0 /\ Len(OneWayLegs(a.ret1)) > 0
              THEN legs1
              ELSE legs1 \o <<Query("outbound", FALSE, a.out2),
                              Query("return", FALSE, a.ret2)>>
  IN  IF Len(flights) = 0 /\ params.tripType = "round"
         /\ params.returnDate # nullStr
      THEN joint \o legs
      ELSE joint

-----------------------------------------------------------------------------
(* The handler's combine loop: pricing, return-leg join *)

\* Array.prototype.find, with the value of `find(...) || dflt`
Find(s, Test(_), dflt) ==
  LET hits == {i \in DOMAIN s : Test(s[i])}
  IN  IF hits = {} THEN dflt ELSE s[CHOOSE i \in hits : \A j \in hits : i <= j]

\* the placeholder of an award offer without a cash offer
NoCashFlight ==
  [cash_price |-> null, departure_time |-> "N/A",
   return_departure_time |-> nullStr, return_date |-> nullStr]

\* the first carrier code of an airline key
FirstCode(airline) ==
  CASE airline = "AA,BA" -> "AA"
    [] airline = "BA,AA" -> "BA"
    [] OTHER -> airline

\* a match on the first carrier code of the award offer's airline key
OutboundCashFlightByFirstCode(v, award, cashFlights) ==
  LET Test(cf) ==
        /\ cf.airline = FirstCode(award.airline)
        /\ cf.departure_date = award.departure_date
        /\ cf.nonstop = award.direct
        /\ (v = "flight-search" => ToUpperCase(cf.cabin) = ToUpperCase(award.cabin))
  IN  Find(cashFlights, Test, NoCashFlight)

\* the cash offer an outbound award offer is priced by
OutboundCashFlight(v, award, cashFlights) ==
  LET Test(cf) ==
        /\ cf.airline = award.airline
        /\ cf.departure_date = award.departure_date
        /\ cf.nonstop = award.direct
        /\ (v = "flight-search" => ToUpperCase(cf.cabin) = ToUpperCase(award.cabin))
  IN  Find(cashFlights, Test, NoCashFlight)

\* the cash offer a return award offer is priced by
ReturnCashFlight(v, award, cashFlights) ==
  LET Test(cf) ==
        /\ cf.airline = award.airline
        /\ cf.return_date = award.departure_date
        /\ cf.nonstop = award.direct
        /\ (v = "flight-search" => ToUpperCase(cf.cabin) = ToUpperCase(award.cabin))
  IN  Find(cashFlights, Test, NoCashFlight)

\* part_000: Math.min(award.taxes_fees, cash_price * 0.1) with a cash price
CappedTaxes(award, cashFlight) ==
  IF Truthy(cashFlight.cash_price)
  THEN (IF award.taxes_fees < cashFlight.cash_price \div 10
        THEN award.taxes_fees ELSE cashFlight.cash_price \div 10)
  ELSE award.taxes_fees

\* part_000: cashFlight.cash_price || award.taxes_fees / 0.1
PriceOrSynth(award, cashFlight) ==
  IF Truthy(cashFlight.cash_price) THEN cashFlight.cash_price ELSE award.taxes_fees * 10

\* cpp of a priced outbound offer, cents per point: dollars per point times
\* 100, which on cents is the plain quotient.  party is adults + children.
Cpp(v, award, cashFlight, party) ==
  IF v = "flight-search"
  THEN (IF Truthy(cashFlight.cash_price)
        THEN Quot(cashFlight.cash_price - award.taxes_fees, party * award.points_used)
        ELSE Zero)
  ELSE (IF award.points # 0 /\ Truthy(cashFlight.cash_price)
        THEN MathMax0(Quot(cashFlight.cash_price - CappedTaxes(award, cashFlight),
                           party * award.points))
        ELSE Zero)

\* one element of outboundFlights.map(...)
PricedOutbound(v, award, cashFlights, party, returnDate) ==
  LET cashFlight == OutboundCashFlight(v, award, cashFlights)
  IN  [cash_price |-> IF v = "flight-search" THEN cashFlight.cash_price
                      ELSE PriceOrSynth(award, cashFlight),
       taxes_fees |-> IF v = "flight-search" THEN award.taxes_fees
                      ELSE CappedTaxes(award, cashFlight),
       departure_time |-> cashFlight.departure_time,
       return_departure_time |-> cashFlight.return_departure_time,
       return_date |-> IF cashFlight.return_date # nullStr
                       THEN cashFlight.return_date ELSE returnDate,
       cpp |-> Cpp(v, award, cashFlight, party)] @@ award

\* one element of returnFlights.map(...)
PricedReturn(v, award, cashFlights) ==
  LET cashFlight == ReturnCashFlight(v, award, cashFlights)
  IN  [cash_price |-> IF v = "flight-search" THEN cashFlight.cash_price
                      ELSE PriceOrSynth(award, cashFlight),
       taxes_fees |-> IF v = "flight-search" THEN award.taxes_fees
                      ELSE CappedTaxes(award, cashFlight),
       departure_time |-> cashFlight.departure_time] @@ award

HasPrice(flight) == Truthy(flight.cash_price)

\* outboundFlights.map(...).filter((flight) => flight.cash_price)
outboundProcessed(v, outboundFlights, cashFlights, party, returnDate) ==
  SelectSeq([i \in DOMAIN outboundFlights |->
               PricedOutbound(v, outboundFlights[i], cashFlights, party, returnDate)],
            HasPrice)

\* returnFlights.map(...).filter((flight) => flight.cash_price)
returnProcessed(v, returnFlights, cashFlights) ==
  SelectSeq([i \in DOMAIN returnFlights |->
               PricedReturn(v, returnFlights[i], cashFlights)],
            HasPrice)

\* the test with the program comparison left out
ReturnMatchesAnyProgram(v, ret, outbound) ==
  /\ ret.airline = outbound.airline
  /\ IF v = "flight-search"
     THEN ToUpperCase(ret.cabin) = ToUpperCase(outbound.cabin)
     ELSE ret.cabin = outbound.cabin

\* the test of returnProcessed.find(...)
ReturnMatches(v, ret, outbound) ==
  /\ ret.airline = outbound.airline
  /\ ret.program = outbound.program
  /\ IF v = "flight-search"
     THEN ToUpperCase(ret.cabin) = ToUpperCase(outbound.cabin)
     ELSE ret.cabin = outbound.cabin

\* the merged offer of an outbound offer and its return offer
Joined(v, outbound, returnFlight, party) ==
  IF v = "flight-search"
  THEN [outbound EXCEPT
          !.taxes_fees = outbound.taxes_fees + returnFlight.taxes_fees,
          !.points_used = party * outbound.points_used * 2,
          !.return_departure_time = returnFlight.departure_time,
          !.return_date = returnFlight.departure_date]
  ELSE [points_used |-> party * outbound.points * 2,
        return_departure_time |-> returnFlight.departure_time,
        return_date |-> returnFlight.departure_date] @@ outbound

\* allFlights.map(outbound => ...).filter(flight => flight), trip_type "round"
JoinReturn(v, flights, returns, party) ==
  LET Matched(outbound) == \E j \in DOMAIN returns : ReturnMatches(v, returns[j], outbound)
      kept == SelectSeq(flights, Matched)
      RetOf(outbound) ==
        returns[CHOOSE j \in DOMAIN returns :
                  /\ ReturnMatches(v, returns[j], outbound)
                  /\ \A k \in DOMAIN returns :
                       ReturnMatches(v, returns[k], outbound) => j <= k]
  IN  [i \in DOMAIN kept |-> Joined(v, kept[i], RetOf(kept[i]), party)]

\* one pass of `for (const { outboundFlights, returnFlights } of seatsAeroResults)`
CombineOne(v, flights, result, cashFlights, party, tripType, returnDate) ==
  LET pushed == flights \o outboundProcessed(v, result.outboundFlights, cashFlights,
                                             party, returnDate)
  IN  IF tripType = "round" /\ (v = "recommend" \/ Len(pushed) > 0)
      THEN JoinReturn(v, pushed,
                      returnProcessed(v, result.returnFlights, cashFlights), party)
      ELSE pushed

\* the whole loop, from allFlights = []
RECURSIVE CombineFrom(_, _, _, _, _, _, _)
CombineFrom(v, flights, results, cashFlights, party, tripType, returnDate) ==
  IF results = <<>> THEN flights
  ELSE CombineFrom(v,
         CombineOne(v, flights, Head(results), cashFlights, party, tripType, returnDate),
         Tail(results), cashFlights, party, tripType, returnDate)

-----------------------------------------------------------------------------
(* Preference filter, ranking, cash fallback *)

\* .slice(0, 5) in index.ts, .slice(0, 3) in part_000
TopN(v) == IF v = "flight-search" THEN 5 ELSE 3

\* cashFlights...slice(0, 3) of the cash fallback, both handlers
CashSlice == 3

\* index.ts: filteredFlights = allFlights.  part_000: the preference filter
filteredFlights(v, flights, nonstop, arrival_departure) ==
  LET Keep(flight) ==
        IF nonstop /\ ~flight.direct THEN FALSE
        ELSE IF arrival_departure = "flexible" \/ flight.departure_time = "N/A" THEN TRUE
        ELSE IF arrival_departure = "morning_departure"
             THEN HourOf(flight.departure_time) < 12
             ELSE HourOf(flight.departure_time) >= 12
  IN  IF v = "flight-search" THEN flights ELSE SelectSeq(flights, Keep)

\* points_balance.Amex + points_balance.Chase >= f.points_used
\* (false for an offer without points_used: a comparison with undefined)
Affordable(flight, points_balance) ==
  /\ "points_used" \in DOMAIN flight
  /\ points_balance.Amex + points_balance.Chase >= flight.points_used

\* the comparator (a, b) => b.cpp - a.cpp as sort reads it: a NaN counts as +0
CompareCpp(a, b) ==
  LET d == SignOfDiff(b.cpp, a.cpp) IN IF d = 2 THEN 0 ELSE d

\* ECMAScript's "consistent comparator" for the values being sorted
ConsistentComparator(S) ==
  \A a, b, c \in S :
    /\ CompareCpp(a, b) = 0 - CompareCpp(b, a)
    /\ (CompareCpp(a, b) = 0 /\ CompareCpp(b, c) = 0 => CompareCpp(a, c) = 0)
    /\ (CompareCpp(a, b) < 0 /\ CompareCpp(b, c) < 0 => CompareCpp(a, c) < 0)
    /\ (CompareCpp(a, b) > 0 /\ CompareCpp(b, c) > 0 => CompareCpp(a, c) > 0)

\* the stable sort: x goes before the first element it must precede
RECURSIVE InsertSorted(_, _)
InsertSorted(x, s) ==
  IF s = <<>> THEN <<x>>
  ELSE IF CompareCpp(x, Head(s)) < 0 THEN <<x>> \o s
  ELSE <<Head(s)>> \o InsertSorted(x, Tail(s))

RECURSIVE StableSort(_)
StableSort(s) ==
  IF s = <<>> THEN <<>>
  ELSE InsertSorted(s[Len(s)], StableSort(SubSeq(s, 1, Len(s) - 1)))

\* Array.prototype.sort((a, b) => b.cpp - a.cpp): the stable sort for a
\* consistent comparator, else an implementation-defined order
SortByCpp(s) ==
  IF ConsistentComparator(Range(s)) THEN {StableSort(s)}
  ELSE {[i \in DOMAIN s |-> s[p[i]]] : p \in Permutations(DOMAIN s)}

TransferFrom(f) ==
  IF f.program = "aeroplan" \/ f.airline \in {"BA", "IB"} THEN "Amex" ELSE "Chase"

\* .map((f) => ({...})) of pointsRecommendations (arrival times left out)
PointsRecommendation(f) ==
  [airline |-> f.airline,
   cabin |-> f.cabin,
   points_used |-> f.points_used,
   cash_price |-> f.cash_price,
   taxes_fees |-> f.taxes_fees,
   cpp |-> f.cpp,
   nonstop |-> f.direct,
   departure_time |-> f.departure_time,
   departure_date |-> f.departure_date,
   return_departure_time |-> f.return_departure_time,
   return_date |-> f.return_date,
   transfer_from |-> TransferFrom(f),
   payment_type |-> "points",
   program |-> f.program]

\* the values pointsRecommendations can take
pointsRecommendations(v, filtered, points_balance) ==
  LET Can(f) == Affordable(f, points_balance)
      affordable == SelectSeq(filtered, Can)
  IN  {[i \in DOMAIN Slice0(sorted, TopN(v)) |-> PointsRecommendation(sorted[i])] :
         sorted \in SortByCpp(affordable)}

\* the reduce of the cash fallback
RECURSIVE CheapestFrom(_, _)
CheapestFrom(best, s) ==
  IF s = <<>> THEN best
  ELSE CheapestFrom(
         IF ~Truthy(best.cash_price) \/ Head(s).cash_price < best.cash_price
         THEN Head(s) ELSE best,
         Tail(s))

\* the reduce over every cash offer's first CashSlice, the nonstop filter left out
cashRecommendationUnfiltered(cashFlights, nonstop) ==
  CheapestFrom([cash_price |-> Infinity, airline |-> ""], Slice0(cashFlights, CashSlice))

cashRecommendation(cashFlights, nonstop) ==
  LET Keep(f) == IF nonstop THEN f.nonstop ELSE TRUE
  IN  CheapestFrom([cash_price |-> Infinity, airline |-> ""],
                   Slice0(SelectSeq(cashFlights, Keep), CashSlice))

NoFlights == [error |-> "No flights available matching preferences"]

\* recommendations with the sentinel step left out
recommendationsOfNoSentinel(points, cash) ==
  IF cash.airline # "" /\ Len(points) = 0 THEN <<cash>> ELSE points

\* recommendations, given pointsRecommendations
recommendationsOf(points, cash) ==
  LET pushed == IF cash.airline # "" /\ Len(points) = 0 THEN <<cash>> ELSE points
  IN  IF Len(pushed) = 0 THEN <<NoFlights>> ELSE pushed

-----------------------------------------------------------------------------
(* Requests and upstream answers the model draws from *)

\* adults of a request: 1..MaxAdults
MaxAdults == 2
\* records in one upstream answer: 0..MaxRecords
MaxRecords == 1

Variants == {"flight-search", "recommend"}

DepartureDate == "2025-06-01"
ReturnDate == "2025-06-08"

\* sequences of at most n elements of S
SeqsUpTo(S, n) == UNION {[1..k -> S] : k \in 0..n}

\* an upstream answer: a failure of transport or parsing, or a list of records
Failure == [ok |-> FALSE, data |-> <<>>]
Answers(S, n) == {Failure} \cup {[ok |-> TRUE, data |-> d] : d \in SeqsUpTo(S, n)}

\* req.body, travel_goals and preferences flattened; children is
\* travelers.children.length, returnDate is nullStr when absent
Request(v, origin, tripType, returnDate, adults, children, cabins, nonstop, ad, balance) ==
  [variant |-> v,
   body |-> [points_balance |-> balance,
             origin |-> origin,
             destination |-> "LHR",
             departureDate |-> DepartureDate,
             returnDate |-> returnDate,
             trip_type |-> tripType,
             adults |-> adults,
             children |-> children,
             preferred_cabin |-> cabins,
             nonstop |-> nonstop,
             arrival_departure |-> ad]]

\* The fields of an award record for one cabin letter; g gives the values
CabinGroup(L, g) ==
  (L \o "Available" :> g.available) @@ (L \o "MileageCostRaw" :> g.cost) @@
  (L \o "TotalTaxesRaw" :> g.taxes) @@ (L \o "Direct" :> g.direct) @@
  (L \o "Airlines" :> g.airlines) @@ (L \o "DirectAirlines" :> g.directAirlines) @@
  (L \o "RemainingSeats" :> g.seats) @@ (L \o "RemainingSeatsRaw" :> g.seats)

\* the values of a cabin the query is not about: unlike every value below
OtherCabin ==
  [available |-> TRUE, cost |-> 7, taxes |-> 700, direct |-> TRUE,
   airlines |-> "ZZ", directAirlines |-> "ZZ", seats |-> 7]

\* the cabin letter the award source files a cabin under
LetterOf(cabin) ==
  CASE cabin = "economy" -> "Y"
    [] cabin = "premiumeconomy" -> "W"
    [] cabin = "business" -> "J"
    [] cabin = "first" -> "F"
    [] OTHER -> "Y"

\* an award record whose values for `cabin` are g
AwardRecord(cabin, g, currency, date, source) ==
  LET Of(L) == CabinGroup(L, IF L = LetterOf(cabin) THEN g ELSE OtherCabin)
  IN  Of("Y") @@ Of("W") @@ Of("J") @@ Of("F") @@
      [TaxesCurrency |-> currency, Date |-> date, Source |-> source]

Award(cabin, date, direct, airline, cost, taxes, currency, source) ==
  AwardRecord(cabin,
              [available |-> TRUE, cost |-> cost, taxes |-> taxes, direct |-> direct,
               airlines |-> airline, directAirlines |-> airline, seats |-> 2],
              currency, date, source)

Itinerary(carrier, total, segments, departureAt, returnAt) ==
  [carrierCode |-> carrier, total |-> total, segments |-> segments,
   departureAt |-> departureAt, returnAt |-> returnAt]

-----------------------------------------------------------------------------
(* The request handler *)

\* validateDate: the regular expression and the Date test, on the dates of the model
validateDate(value) == value \in {"2025-06-01", "2025-06-08", "2025-06-09"}

\* validationResult(req).array(), as the set of the messages
validationResult(body) ==
  {m \in {"Origin must be a 3-letter IATA code",
          "Destination must be a 3-letter IATA code",
          "Invalid departureDate format (YYYY-MM-DD)",
          "Invalid returnDate format (YYYY-MM-DD)",
          "Trip type must be one-way or round",
          "Adults must be a positive integer",
          "Preferred cabin must be a non-empty array",
          "Arrival/departure must be flexible or morning_departure"} :
     \/ m = "Origin must be a 3-letter IATA code" /\ Len(body.origin) # 3
     \/ m = "Destination must be a 3-letter IATA code" /\ Len(body.destination) # 3
     \/ m = "Invalid departureDate format (YYYY-MM-DD)" /\ ~validateDate(body.departureDate)
     \/ m = "Invalid returnDate format (YYYY-MM-DD)"
          /\ body.returnDate # nullStr /\ ~validateDate(body.returnDate)
     \/ m = "Trip type must be one-way or round" /\ body.trip_type \notin {"one-way", "round"}
     \/ m = "Adults must be a positive integer" /\ body.adults < 1
     \/ m = "Preferred cabin must be a non-empty array" /\ Len(body.preferred_cabin) = 0
     \/ m = "Arrival/departure must be flexible or morning_departure"
          /\ body.arrival_departure \notin {"flexible", "morning_departure"}}

\* adults + children
Party(body) == (IF body.adults # 0 THEN body.adults ELSE 1) + body.children

\* GET /flights/economy of part_000, the endpoint behind the middleware
IsGet(v) == v = "flights/economy"

\* the params of the fetchCashFlights call number i
CashParams(v, body, i) ==
  [travelClass |-> IF v = "flight-search" THEN ToUpperCase(body.preferred_cabin[i])
                   ELSE IF IsGet(v) THEN "ECONOMY"
                   ELSE IF \E k \in DOMAIN body.preferred_cabin :
                             body.preferred_cabin[k] = "business"
                        THEN "BUSINESS" ELSE "ECONOMY",
   nonstop |-> body.nonstop,
   tripType |-> body.trip_type,
   returnDate |-> body.returnDate]

\* the number of fetchCashFlights calls the handler makes
CashCalls(v, body) == IF v = "flight-search" THEN Len(body.preferred_cabin) ELSE 1

NoResponse == [status |-> 0, body |-> [sent |-> FALSE]]

\* the slots of the two Promise.all arrays before their calls settle
PendingCash == [done |-> FALSE, flights |-> <<>>]
PendingAward == [done |-> FALSE, outboundFlights |-> <<>>, returnFlights |-> <<>>]

BadRequest(errors) == [status |-> 400, body |-> [errors |-> errors]]
MissingReturnDate == [status |-> 400, body |-> [error |-> "Missing returnDate for round trip"]]

\* a catch block that sends nothing
Swallowed(details) == NoResponse

\* a catch that answers without the error's message
ServerErrorNoDetails(details) ==
  [status |-> 500, body |-> [error |-> "Failed to generate recommendations", details |-> ""]]

\* the catch of the POST handlers: details is error.message
ServerError(details) ==
  [status |-> 500,
   body |-> [error |-> "Failed to generate recommendations", details |-> details]]

\* the message of the Error getAmadeusToken throws
TokenFailure == "Failed to get Amadeus token"

\* ensureAmadeusToken's answer when getAmadeusToken throws
AuthenticationError ==
  [status |-> 500,
   body |-> [error |-> "Failed to authenticate with Amadeus", details |-> TokenFailure]]

\* validationResult(req).array() of the GET endpoints, as the set of the
\* messages; the query parameters adults, children and nonstop are absent
\* or well-formed in the requests considered
validateFlightQuery(query) ==
  {m \in {"Origin must be a 3-letter IATA code",
          "Destination must be a 3-letter IATA code",
          "Invalid departureDate format (YYYY-MM-DD)",
          "Invalid returnDate format (YYYY-MM-DD)",
          "Trip type must be one-way or round"} :
     \/ m = "Origin must be a 3-letter IATA code" /\ Len(query.origin) # 3
     \/ m = "Destination must be a 3-letter IATA code" /\ Len(query.destination) # 3
     \/ m = "Invalid departureDate format (YYYY-MM-DD)" /\ ~validateDate(query.departureDate)
     \/ m = "Invalid returnDate format (YYYY-MM-DD)"
          /\ query.returnDate # nullStr /\ ~validateDate(query.returnDate)
     \/ m = "Trip type must be one-way or round" /\ query.trip_type \notin {"one-way", "round"}}

\* the 400 a handler answers a request with, NoResponse when it passes
Rejection(v, body) ==
  LET errors == IF IsGet(v) THEN validateFlightQuery(body) ELSE validationResult(body)
  IN  IF errors # {} THEN BadRequest(errors)
      ELSE IF body.trip_type = "round" /\ body.returnDate = nullStr THEN MissingReturnDate
      ELSE NoResponse

\* a preferred_cabin element that is not a string (a JSON number): the
\* validator only asks for a non-empty array
NotAString == "<number>"
IsString(cabin) == cabin # NotAString

\* the upstream calls of a request
TokenCall == [kind |-> "token", call |-> 0]
CashCall(i) == [kind |-> "cash", call |-> i]
AwardCall(i) == [kind |-> "award", call |-> i]

\* a call that was issued and has not settled
InFlight(c) ==
  /\ c \in issued
  /\ \A k \in DOMAIN settled : [kind |-> settled[k].kind, call |-> settled[k].call] # c

\* an await that ends with the first slot filled
SettledAny(results) == \E i \in DOMAIN results : results[i].done

\* the await of a Promise.all ends when every slot is filled
Settled(results) == \A i \in DOMAIN results : results[i].done

\* an array filled in the order the calls settle
PlaceByArrival(results, i, entry) ==
  [results EXCEPT ![1 + Cardinality({k \in DOMAIN results : results[k].done})] = entry]

\* Promise.all keeps the value of call i at index i
Place(results, i, entry) == [results EXCEPT ![i] = entry]

\* the answers the cash source can give to a query: with the nonStop
\* parameter true, a source that honours it returns nonstop itineraries only
CashAnswers(U, S, nonStop) ==
  IF U.honoursNonStop /\ nonStop
  THEN {a \in S : \A i \in DOMAIN a.data : a.data[i].segments = 1}
  ELSE S

\* preferred_cabin.map(cabin => fetchCashFlights(...)) starts: in
\* /flight-search cabin.toUpperCase() throws at the first element that is
\* not a string, after the calls of the elements before it were made
IssueCash(v, body, token) ==
  LET bad == {i \in DOMAIN body.preferred_cabin : ~IsString(body.preferred_cabin[i])}
      first == CHOOSE i \in bad : \A j \in bad : i <= j
  IN  IF v = "flight-search" /\ bad # {}
      THEN /\ response' = ServerError("cabin.toUpperCase is not a function")
           /\ pc' = "done"
           /\ issued' = issued \cup {CashCall(i) : i \in 1..(first - 1)}
           /\ cashFlightsNested' = [i \in 1..(first - 1) |-> PendingCash]
           /\ seatsAeroResults' = <<>>
           /\ sentToken' = IF first > 1 THEN {token} ELSE {}
      ELSE /\ pc' = "cash"
           /\ issued' = issued \cup {CashCall(i) : i \in 1..CashCalls(v, body)}
           /\ cashFlightsNested' = [i \in 1..CashCalls(v, body) |-> PendingCash]
           /\ seatsAeroResults' = [i \in DOMAIN body.preferred_cabin |-> PendingAward]
           /\ sentToken' = {token}
           /\ UNCHANGED response

\* no second request
NoOther == [pc |-> "none"]

\* a handler that goes on with whatever amadeusToken holds
TokenNeverTested(token) == FALSE

\* if (!amadeusToken)
NoToken(token) == token = ""

\* response.data.access_token of the n-th successful token request
TokenOf(n) == "token-" \o ToString(n)

\* a handler up to its first await: ensureAmadeusToken in front of the GET
\* endpoints, then validation, destructuring, the round-trip check, and the
\* token test of the POST handlers
Receive(U) ==
  /\ pc = "idle"
  /\ \E r \in U.requests :
       /\ variant' = r.variant
       /\ req' = r.body
       /\ IF IsGet(r.variant) /\ NoToken(amadeusToken)
          THEN /\ pc' = "token"
               /\ issued' = issued \cup {TokenCall}
               /\ UNCHANGED <<cashFlightsNested, seatsAeroResults, response, sentToken>>
          ELSE IF Rejection(r.variant, r.body) # NoResponse
          THEN /\ response' = Rejection(r.variant, r.body)
               /\ pc' = "done"
               /\ UNCHANGED <<cashFlightsNested, seatsAeroResults, issued, sentToken>>
          ELSE IF NoToken(amadeusToken)
          THEN /\ pc' = "token"
               /\ issued' = issued \cup {TokenCall}
               /\ UNCHANGED <<cashFlightsNested, seatsAeroResults, response, sentToken>>
          ELSE IssueCash(r.variant, r.body, amadeusToken)
  /\ UNCHANGED <<amadeusToken, acquired, timers, allFlights, settled>>
  /\ UNCHANGED other

\* getAmadeusToken resolves: the token is stored; the GET handler behind
\* the middleware now validates, the POST handlers go on to the cash calls
TokenResolved ==
  /\ pc = "token"
  /\ acquired' = acquired + 1
  /\ amadeusToken' = TokenOf(acquired + 1)
  /\ timers' = timers \cup {acquired + 1}
  /\ IF IsGet(variant) /\ Rejection(variant, req) # NoResponse
     THEN /\ response' = Rejection(variant, req)
          /\ pc' = "done"
          /\ UNCHANGED <<cashFlightsNested, seatsAeroResults, issued, sentToken>>
     ELSE IssueCash(variant, req, TokenOf(acquired + 1))
  /\ UNCHANGED <<variant, req, allFlights, settled>>
  /\ UNCHANGED other

\* getAmadeusToken throws: the middleware answers 500 itself, the POST
\* handlers' catch answers 500 with the error's message
TokenRejected ==
  /\ pc = "token"
  /\ response' = IF IsGet(variant) THEN AuthenticationError ELSE ServerError(TokenFailure)
  /\ pc' = "done"
  /\ UNCHANGED <<variant, req, amadeusToken, cashFlightsNested, seatsAeroResults,
                 allFlights, issued, settled, acquired, timers, sentToken>>
  /\ UNCHANGED other

\* one fetchCashFlights call settles; the last one ends the await of the
\* cash calls, and only then are the getSeatsAeroFlights calls made
CashDone(U) ==
  /\ pc = "cash"
  /\ \E i \in DOMAIN cashFlightsNested :
       /\ InFlight(CashCall(i))
       /\ LET params == CashParams(variant, req, i)
              S == U.cash[params.travelClass]
              legged == params.tripType = "round" /\ params.returnDate # nullStr
          IN  \E j1 \in CashAnswers(U, S, params.nonstop),
                 j2 \in IF variant = "flight-search" THEN {Failure} ELSE S,
                 l \in IF variant = "flight-search"
                       THEN {<<Failure, Failure, Failure, Failure>>}
                       ELSE CashAnswers(U, U.legs, params.nonstop)
                            \X CashAnswers(U, U.legs, params.nonstop)
                            \X U.legs \X U.legs :
                LET flights ==
                      IF variant = "flight-search"
                      THEN fetchCashFlights(j1, params)
                      ELSE fetchCashFlightsRetry(
                             [joint1 |-> j1, joint2 |-> j2, out1 |-> l[1], ret1 |-> l[2],
                              out2 |-> l[3], ret2 |-> l[4]], params)
                    failed ==
                      /\ ~j1.ok
                      /\ variant # "flight-search" =>
                           /\ ~j2.ok
                           /\ legged => \A k \in 1..4 : ~l[k].ok
                    entry == [done |-> TRUE, flights |-> flights]
                    queries ==
                      IF variant = "flight-search"
                      THEN <<Query("joint", params.nonstop, j1)>>
                      ELSE cashQueries(
                             [joint1 |-> j1, joint2 |-> j2, out1 |-> l[1], ret1 |-> l[2],
                              out2 |-> l[3], ret2 |-> l[4]], params)
                IN  /\ cashFlightsNested' = Place(cashFlightsNested, i, entry)
                    /\ settled' = Append(settled, [kind |-> "cash", call |-> i,
                                                   failed |-> failed, result |-> entry,
                                                   queries |-> queries])
  /\ IF Settled(cashFlightsNested')
     THEN /\ pc' = "award"
          /\ issued' = issued \cup {AwardCall(i) : i \in DOMAIN seatsAeroResults}
     ELSE /\ pc' = "cash"
          /\ UNCHANGED issued
  /\ UNCHANGED <<variant, req, amadeusToken, seatsAeroResults, allFlights, response,
                 acquired, timers, sentToken>>
  /\ UNCHANGED other

\* cashFlightsNested.flat()
CashFlightsOf(nested) == Flat([i \in DOMAIN nested |-> nested[i].flights])

\* the POST handlers from the end of the award Promise.all to res.json
Respond(results) ==
  LET cashFlights == CashFlightsOf(cashFlightsNested)
      flights == CombineFrom(variant, <<>>, results, cashFlights, Party(req),
                             req.trip_type, req.returnDate)
      filtered == filteredFlights(variant, flights, req.nonstop, req.arrival_departure)
      cash == cashRecommendation(cashFlights, req.nonstop)
  IN  /\ allFlights' = flights
      /\ \E points \in pointsRecommendations(variant, filtered, req.points_balance) :
           response' = [status |-> 200,
                        body |-> [recommendations |-> recommendationsOf(points, cash)]]

\* GET /flights/economy from the end of its award call to res.json(flights)
RespondFlights(results) ==
  LET flights == outboundProcessed("recommend", results[1].outboundFlights,
                                   CashFlightsOf(cashFlightsNested), Party(req),
                                   req.returnDate)
  IN  /\ allFlights' = flights
      /\ response' = [status |-> 200, body |-> [flights |-> flights]]

\* one getSeatsAeroFlights call settles; after the last one the handler
\* runs to its response without another await
AwardDone(U) ==
  /\ pc = "award"
  /\ \E i \in DOMAIN seatsAeroResults :
       /\ InFlight(AwardCall(i))
       /\ LET cabin == req.preferred_cabin[i]
              returnDate == IF req.trip_type = "round" THEN req.returnDate ELSE nullStr
          IN  \E out \in U.award[cabin],
                 ret \in IF returnDate = nullStr THEN {Failure} ELSE U.awardReturn[cabin] :
                LET entry == [done |-> TRUE] @@
                             getSeatsAeroFlights(variant, out, ret, cabin, req.nonstop,
                                                 returnDate)
                    failed == ~out.ok \/ (returnDate # nullStr /\ ~ret.ok)
                IN  /\ seatsAeroResults' = Place(seatsAeroResults, i, entry)
                    /\ settled' = Append(settled, [kind |-> "award", call |-> i,
                                                   failed |-> failed, result |-> entry])
  /\ IF Settled(seatsAeroResults')
     THEN /\ pc' = "done"
          /\ IF IsGet(variant) THEN RespondFlights(seatsAeroResults')
                               ELSE Respond(seatsAeroResults')
     ELSE pc' = "award" /\ UNCHANGED <<allFlights, response>>
  /\ UNCHANGED <<variant, req, amadeusToken, cashFlightsNested, issued, acquired,
                 timers, sentToken>>
  /\ UNCHANGED other

\* a handler, serving one request
Next(U) ==
  \/ Receive(U)
  \/ TokenResolved
  \/ TokenRejected
  \/ CashDone(U)
  \/ AwardDone(U)

InitIdle ==
  /\ variant = "flight-search"
  /\ req = [none |-> TRUE]
  /\ pc = "idle"
  /\ amadeusToken = ""
  /\ acquired = 0
  /\ timers = {}
  /\ sentToken = {}
  /\ cashFlightsNested = <<>>
  /\ seatsAeroResults = <<>>
  /\ allFlights = <<>>
  /\ response = NoResponse
  /\ issued = {}
  /\ settled = <<>>
  /\ other = NoOther

\* the server after an earlier request may have left a token
InitServing ==
  /\ variant = "flight-search"
  /\ req = [none |-> TRUE]
  /\ pc = "idle"
  /\ acquired \in {0, 1}
  /\ amadeusToken = IF acquired = 0 THEN "" ELSE TokenOf(acquired)
  /\ timers = 1..acquired
  /\ sentToken = {}
  /\ cashFlightsNested = <<>>
  /\ seatsAeroResults = <<>>
  /\ allFlights = <<>>
  /\ response = NoResponse
  /\ issued = {}
  /\ settled = <<>>
  /\ other = NoOther

-----------------------------------------------------------------------------
(* Spec: one request of either handler, one cabin, single-record answers *)

LowBalance == [Amex |-> 0, Chase |-> 1]
HighBalance == [Amex |-> 50, Chase |-> 50]

BaseRequests ==
  {Request(v, "JFK", t, ReturnDate, n, 0, <<"economy">>, ns, ad, b) :
     v \in Variants, t \in {"one-way", "round"}, n \in 1..MaxAdults,
     ns \in BOOLEAN, ad \in {"flexible", "morning_departure"},
     b \in {LowBalance, HighBalance}}
  \cup {Request(v, "JFKX", "one-way", nullStr, 1, 0, <<"economy">>, FALSE, "flexible",
                HighBalance) : v \in Variants}
  \cup {Request(v, "JFK", "round", nullStr, 1, 0, <<"economy">>, FALSE, "flexible",
                HighBalance) : v \in Variants}

BaseItineraries ==
  {Itinerary("AA", "10.00", 1, "2025-06-01T08:00:00", "2025-06-08T09:00:00"),
   Itinerary("AA", "10000.00", 2, "2025-06-01T15:00:00", "2025-06-08T09:00:00"),
   Itinerary("BA", "20.00", 1, "2025-06-01T08:00:00", nullStr)}

BaseLegs ==
  {Itinerary("AA", "20.00", 1, "2025-06-01T08:00:00", nullStr)}

BaseAwards(cabin, date) ==
  {Award(cabin, date, TRUE, "AA", 2, 2000, "CAD", "aeroplan"),
   Award(cabin, date, FALSE, "AA", 1, 1000, "USD", "united"),
   Award(cabin, date, TRUE, "AA", 0, 1000, "USD", "aeroplan"),
   Award(cabin, date, TRUE, "BA", 1, 1000, "USD", "united")}

UBase ==
  [requests |-> BaseRequests,
   cash |-> [ECONOMY |-> Answers(BaseItineraries, MaxRecords)],
   legs |-> Answers(BaseLegs, MaxRecords),
   award |-> [economy |-> Answers(BaseAwards("economy", DepartureDate), MaxRecords)],
   awardReturn |-> [economy |-> Answers(BaseAwards("economy", ReturnDate), MaxRecords)],
   honoursNonStop |-> TRUE]

Spec == InitIdle /\ [][Next(UBase)]_vars

-----------------------------------------------------------------------------
(* SpecRound: round trips over one or two cabins *)

RoundRequests ==
  {Request(v, "JFK", "round", ReturnDate, 1, 0, cabins, FALSE, "flexible", HighBalance) :
     v \in Variants,
     cabins \in {<<"economy">>, <<"economy", "business">>, <<"business", "economy">>}}

RoundItineraries ==
  {Itinerary("AA", "10000.00", 2, "2025-06-01T08:00:00", "2025-06-08T09:00:00"),
   Itinerary("BA", "10000.00", 2, "2025-06-01T08:00:00", "2025-06-08T09:00:00")}

RoundAwards(cabin, date) ==
  IF cabin = "economy"
  THEN {Award(cabin, date, FALSE, "AA", 1, 1000, "USD", "aeroplan"),
        Award(cabin, date, FALSE, "AA", 1, 1000, "USD", "united"),
        Award(cabin, date, FALSE, "BA", 1, 1000, "USD", "aeroplan")}
  ELSE {Award(cabin, date, FALSE, "AA", 1, 1000, "USD", "aeroplan")}

URound ==
  [requests |-> RoundRequests,
   cash |-> [ECONOMY |-> Answers(RoundItineraries, MaxRecords),
             BUSINESS |->
               Answers({Itinerary("AA", "10000.00", 2, "2025-06-01T08:00:00",
                                  "2025-06-08T09:00:00")}, MaxRecords)],
   legs |-> Answers(BaseLegs, MaxRecords),
   award |-> [c \in {"economy", "business"} |->
                Answers(RoundAwards(c, DepartureDate), MaxRecords)],
   awardReturn |-> [c \in {"economy", "business"} |->
                      Answers(RoundAwards(c, ReturnDate), MaxRecords)],
   honoursNonStop |-> TRUE]

SpecRound == InitIdle /\ [][Next(URound)]_vars

-----------------------------------------------------------------------------
(* SpecRank: many award offers of one cabin, to be ranked *)

\* award records in one answer of SpecRank: 0..MaxOffers
MaxOffers == 6

RankRequests ==
  {Request(v, "JFK", t, ReturnDate, 1, 0, <<"economy">>, TRUE, "flexible", b) :
     v \in Variants, t \in {"one-way", "round"}, b \in {LowBalance, HighBalance}}

RankItineraries ==
  {Itinerary("AA", "20.00", 1, "2025-06-01T08:00:00", "2025-06-08T09:00:00")}

RankAwards(date) ==
  {Award("economy", date, TRUE, "AA", 0, 2000, "USD", "aeroplan"),
   Award("economy", date, TRUE, "AA", 1, 1000, "USD", "aeroplan"),
   Award("economy", date, TRUE, "AA", 2, 1000, "USD", "aeroplan")}

URank ==
  [requests |-> RankRequests,
   cash |-> [ECONOMY |-> Answers(RankItineraries, MaxRecords)],
   legs |-> {Failure},
   award |-> [economy |-> Answers(RankAwards(DepartureDate), MaxOffers)],
   awardReturn |->
     [economy |-> Answers({Award("economy", ReturnDate, TRUE, "AA", 1, 1000, "USD",
                                 "aeroplan")}, MaxRecords)],
   honoursNonStop |-> TRUE]

SpecRank == InitIdle /\ [][Next(URank)]_vars

-----------------------------------------------------------------------------
(* SpecCash: many cash offers and no award offer *)

\* itineraries in one answer of SpecCash: 0..MaxCashOffers
MaxCashOffers == 4

CashRequests ==
  {Request(v, "JFK", t, ReturnDate, 1, 0, <<"economy">>, ns, "flexible", HighBalance) :
     v \in Variants, t \in {"one-way", "round"}, ns \in BOOLEAN}

CashItineraries ==
  {Itinerary("AA", "20.00", 1, "2025-06-01T08:00:00", "2025-06-08T09:00:00"),
   Itinerary("AA", "10000.00", 1, "2025-06-01T08:00:00", "2025-06-08T09:00:00"),
   Itinerary("BA", "10.00", 2, "2025-06-01T08:00:00", "2025-06-08T09:00:00")}

UCash ==
  [requests |-> CashRequests,
   cash |-> [ECONOMY |-> Answers(CashItineraries, MaxCashOffers)],
   legs |-> {Failure},
   award |-> [economy |-> Answers({}, MaxRecords)],
   awardReturn |-> [economy |-> Answers({}, MaxRecords)],
   honoursNonStop |-> TRUE]

SpecCash == InitIdle /\ [][Next(UCash)]_vars

-----------------------------------------------------------------------------
(* Properties of the response *)

\* the handler answered 200 with recommendations
Answered == pc = "done" /\ response.status = 200
Recommendations == response.body.recommendations
CashFlights == CashFlightsOf(cashFlightsNested)

IsPoints(r) == "payment_type" \in DOMAIN r
IsSentinel(r) == r = NoFlights
PointsRecs == SelectSeq(Recommendations, IsPoints)

\* the cash offers the nonstop preference admits
PassNonstop(f) == req.nonstop => f.nonstop
NoneAffordable ==
  \A i \in DOMAIN allFlights : ~Affordable(allFlights[i], req.points_balance)

\* C1 (amended): when no matched award offer is within the points balance,
\* the recommendations are exactly one element: a cash offer if some cash
\* offer passes the nonstop filter, otherwise the sentinel.
C1_OneFallback ==
  (Answered /\ NoneAffordable) =>
    /\ Len(Recommendations) = 1
    /\ IF SelectSeq(CashFlights, PassNonstop) # <<>>
       THEN Recommendations[1] \in Range(SelectSeq(CashFlights, PassNonstop))
       ELSE IsSentinel(Recommendations[1])

\* the fallback was a cash offer although matched award offers existed
C1_Witness ==
  /\ Answered /\ NoneAffordable /\ allFlights # <<>>
  /\ Recommendations[1] \in Range(CashFlights)

\* C1 as stated: when no matched award offer is within the points balance,
\* the recommendations are exactly one element: a cash offer if any cash
\* offer exists for the request, otherwise the sentinel.
C1_AnyCashOffer ==
  (Answered /\ NoneAffordable) =>
    /\ Len(Recommendations) = 1
    /\ IF CashFlights # <<>>
       THEN Recommendations[1] \in Range(CashFlights)
       ELSE IsSentinel(Recommendations[1])

\* the points an offer costs: points_used, or points before the merge of part_000
PointsOf(f) == IF "points_used" \in DOMAIN f THEN f.points_used ELSE f.points

\* C3 as stated: every offer of leg matching, and every points
\* recommendation, has cpp >= 0, and cpp = 0 when its points are 0 or it has
\* no cash price.
C3_CppFloor ==
  Answered =>
    /\ \A i \in DOMAIN allFlights :
         /\ QGeq(allFlights[i].cpp, Zero)
         /\ (PointsOf(allFlights[i]) = 0 \/ ~Truthy(allFlights[i].cash_price))
              => QEq(allFlights[i].cpp, Zero)
    /\ \A i \in DOMAIN PointsRecs :
         /\ QGeq(PointsRecs[i].cpp, Zero)
         /\ (PointsRecs[i].points_used = 0 \/ ~Truthy(PointsRecs[i].cash_price))
              => QEq(PointsRecs[i].cpp, Zero)

\* max(0, (cash_price - taxes_fees) / points_used * 100) on a recommendation's fields
CppOfFields(r) ==
  IF ~Truthy(r.cash_price) \/ r.points_used = 0 THEN Zero
  ELSE MathMax0(Quot(r.cash_price - r.taxes_fees, r.points_used))

\* C4 as stated: the cpp of every points recommendation equals
\* max(0, (cash_price - taxes_fees) / points_used * 100) of its own fields.
C4_CppOfOwnFields ==
  Answered => \A i \in DOMAIN PointsRecs : QEq(PointsRecs[i].cpp, CppOfFields(PointsRecs[i]))

\* the award offers a recommendation can have been made of
OffersOf(r) ==
  {o \in UNION {Range(seatsAeroResults[i].outboundFlights) : i \in DOMAIN seatsAeroResults} :
     /\ o.airline = r.airline /\ o.cabin = r.cabin
     /\ o.program = r.program /\ o.direct = r.nonstop}

\* C5 as stated: the points_used of every points recommendation is
\* (adults + children) x the award record's raw mileage cost x 2 for a round
\* trip, x 1 for a one-way trip.
C5_PointsUsed ==
  Answered =>
    \A i \in DOMAIN PointsRecs :
      \E o \in OffersOf(PointsRecs[i]) :
        PointsRecs[i].points_used =
          Party(req) * PointsOf(o) * (IF req.trip_type = "round" THEN 2 ELSE 1)

\* C8 as stated: the award normaliser returns only offers whose direct flag
\* equals the requested nonstop flag, with nonstop true and with nonstop false.
C8_DirectEqualsNonstop ==
  \A i \in DOMAIN seatsAeroResults :
    seatsAeroResults[i].done =>
      \A o \in Range(seatsAeroResults[i].outboundFlights)
               \cup Range(seatsAeroResults[i].returnFlights) :
        o.direct = req.nonstop

\* C9: when the request requires nonstop, no returned recommendation, points
\* or cash, has nonstop = false.
C9_NonstopHonoured ==
  (Answered /\ req.nonstop) =>
    \A i \in DOMAIN Recommendations :
      ~IsSentinel(Recommendations[i]) => Recommendations[i].nonstop

\* nonstop was required, a connecting cash offer was on hand, and an offer
\* was recommended
C9_Witness ==
  /\ Answered /\ req.nonstop
  /\ \E i \in DOMAIN CashFlights : ~CashFlights[i].nonstop
  /\ ~IsSentinel(Recommendations[1])

\* C2: for a round trip, every points recommendation has, among the priced
\* return-leg award offers of the request, one of its airline, program and
\* cabin; an outbound offer without one is not recommended.
C2_ReturnJoined ==
  (Answered /\ req.trip_type = "round") =>
    \A i \in DOMAIN PointsRecs :
      \E k \in DOMAIN seatsAeroResults :
        \E ret \in Range(returnProcessed(variant, seatsAeroResults[k].returnFlights,
                                         CashFlights)) :
          /\ ret.airline = PointsRecs[i].airline
          /\ ret.program = PointsRecs[i].program
          /\ ret.cabin = PointsRecs[i].cabin

\* a round trip over two cabins was answered with a points recommendation
\* while a priced return offer of another program was on hand
C2_Witness ==
  /\ Answered /\ req.trip_type = "round" /\ Len(req.preferred_cabin) = 2
  /\ PointsRecs # <<>>
  /\ \E k \in DOMAIN seatsAeroResults :
       \E ret \in Range(returnProcessed(variant, seatsAeroResults[k].returnFlights,
                                        CashFlights)) :
         ret.program # PointsRecs[1].program

\* the matched offers the ranking chooses from: those within the balance
Qualifying ==
  SelectSeq(filteredFlights(variant, allFlights, req.nonstop, req.arrival_departure),
            LAMBDA f : Affordable(f, req.points_balance))

\* C6 as stated: every points recommendation is within the balance, and every
\* qualifying offer of a strictly higher cpp than a returned one is returned.
C6_TopN ==
  Answered =>
    \A i \in DOMAIN PointsRecs :
      /\ PointsRecs[i].points_used <= req.points_balance.Amex + req.points_balance.Chase
      /\ Cardinality({j \in DOMAIN Qualifying : QGt(Qualifying[j].cpp, PointsRecs[i].cpp)})
           = Cardinality({j \in DOMAIN PointsRecs : QGt(PointsRecs[j].cpp, PointsRecs[i].cpp)})

\* C7 as stated: the points recommendations are in non-increasing order of
\* cpp (no recommendation has a cpp strictly greater than an earlier one's),
\* and are at most 5 (/flight-search) or 3 (/recommend).
C7_SortedCapped ==
  Answered =>
    /\ Len(PointsRecs) <= (IF variant = "flight-search" THEN 5 ELSE 3)
    /\ \A i, j \in DOMAIN PointsRecs :
         i < j => ~QGt(PointsRecs[j].cpp, PointsRecs[i].cpp)

\* C10 as stated: a returned cash fallback has the least cash_price of all
\* the request's cash offers that pass the nonstop filter.
C10_CheapestOfAll ==
  (Answered /\ Recommendations[1] \in Range(CashFlights)) =>
    \A i \in DOMAIN CashFlights :
      PassNonstop(CashFlights[i]) => Recommendations[1].cash_price <= CashFlights[i].cash_price

\* ---------------------------------------------------------------------------
\* Fallbacks, matching and failures.

\* a recommendation taken from the cash offers (neither a points
\* recommendation nor the sentinel)
IsCashEntry(r) == ~IsPoints(r) /\ ~IsSentinel(r)

\* C11 as stated: a cash-fallback entry is the only element of the
\* recommendations and carries payment_type = "cash".
C11_CashTagged ==
  Answered =>
    \A i \in DOMAIN Recommendations :
      IsCashEntry(Recommendations[i]) =>
        /\ Len(Recommendations) = 1
        /\ "payment_type" \in DOMAIN Recommendations[i]
        /\ Recommendations[i].payment_type = "cash"

\* positions of the cash offers of the airline, departure date and
\* nonstop/direct flag of a recommendation
CashMatches(r) ==
  {j \in DOMAIN CashFlights :
     /\ CashFlights[j].airline = r.airline
     /\ CashFlights[j].departure_date = r.departure_date
     /\ CashFlights[j].nonstop = r.nonstop}

\* C12 as stated: the cash_price of every points recommendation is the price
\* of the first cash offer of its airline, departure date and nonstop/direct
\* flag; an award offer without such a cash offer is never recommended.
C12_PricedByCashOffer ==
  Answered =>
    \A i \in DOMAIN PointsRecs :
      /\ CashMatches(PointsRecs[i]) # {}
      /\ \E j \in CashMatches(PointsRecs[i]) :
           /\ \A k \in CashMatches(PointsRecs[i]) : j <= k
           /\ PointsRecs[i].cash_price = CashFlights[j].cash_price

-----------------------------------------------------------------------------
(* SpecFault: one request of any endpoint on a server that may hold a token:
   well-formed and malformed requests, cabins that are not strings, sources
   that fail *)

Endpoints == Variants \cup {"flights/economy"}

\* the cabin lists an endpoint is asked for; GET /flights/economy has its
\* cabin fixed
CabinLists(v) ==
  IF IsGet(v) THEN {<<"economy">>}
  ELSE {<<"economy">>, <<"economy", "business">>, <<NotAString>>,
        <<"economy", NotAString>>}

FaultRequests ==
  {Request(v, "JFK", t, ReturnDate, 1, 0, c, FALSE, "flexible", HighBalance) :
     v \in Endpoints, t \in {"one-way", "round"},
     c \in {<<"economy">>, <<"economy", "business">>, <<NotAString>>,
            <<"economy", NotAString>>}}

WellFormed == {r \in FaultRequests : r.body.preferred_cabin \in CabinLists(r.variant)}

\* an origin of four characters, a return date not in YYYY-MM-DD form, and
\* a round trip without a return date
Malformed ==
  {Request(v, "JFKX", "one-way", nullStr, 1, 0, <<"economy">>, FALSE, "flexible",
           HighBalance) : v \in Endpoints}
  \cup {Request(v, "JFK", "round", "06/08/2025", 1, 0, <<"economy">>, FALSE, "flexible",
                HighBalance) : v \in Endpoints}
  \cup {Request(v, "JFK", "round", nullStr, 1, 0, <<"economy">>, FALSE, "flexible",
                HighBalance) : v \in Endpoints}

FaultItineraries ==
  {Itinerary("AA", "10000.00", 2, "2025-06-01T08:00:00", "2025-06-08T09:00:00")}

FaultAwards(cabin, date) ==
  {Award(cabin, date, FALSE, "AA", 1, 1000, "USD", "aeroplan"),
   Award(cabin, date, FALSE, "BA", 1, 1000, "USD", "aeroplan")}

UFault ==
  [requests |-> WellFormed \cup Malformed,
   cash |-> [c \in {"ECONOMY", "BUSINESS"} |-> Answers(FaultItineraries, MaxRecords)],
   legs |-> Answers(BaseLegs, MaxRecords),
   award |-> [c \in {"economy", "business", NotAString} |->
                Answers(FaultAwards(c, DepartureDate), MaxRecords)],
   awardReturn |-> [c \in {"economy", "business", NotAString} |->
                      Answers(FaultAwards(c, ReturnDate), MaxRecords)],
   honoursNonStop |-> TRUE]

SpecFault == InitServing /\ [][Next(UFault)]_vars

\* every cash and award call of the request was made and has settled
AllSettled ==
  /\ pc = "done"
  /\ \A c \in issued : ~InFlight(c)
  /\ \E k \in DOMAIN settled : settled[k].kind = "award"

\* every cash query and every award query failed
EveryQueryFailed == AllSettled /\ \A k \in DOMAIN settled : settled[k].failed

\* C13: when a token is available and every award query and every cash
\* query of the request fails, for all cabins, the recommending handlers
\* answer with HTTP success and exactly the 'no offers' sentinel, never 500.
C13_AllFailedSentinel ==
  (EveryQueryFailed /\ ~IsGet(variant)) =>
    /\ response.status = 200
    /\ response.body.recommendations = <<NoFlights>>

C13_Witness ==
  /\ EveryQueryFailed
  /\ variant = "flight-search"
  /\ Len(req.preferred_cabin) = 2
  /\ Len(settled) = 4
  /\ response.body.recommendations = <<NoFlights>>

\* the call of that kind and index failed
FailedCall(kind, i) ==
  \E k \in DOMAIN settled :
    settled[k].kind = kind /\ settled[k].call = i /\ settled[k].failed

\* the elements of s at the positions in I, in their order
Keep(s, I) ==
  LET F[n \in 0..Len(s)] ==
        IF n = 0 THEN <<>>
        ELSE IF n \in I THEN Append(F[n - 1], s[n]) ELSE F[n - 1]
  IN  F[Len(s)]

\* the recommendations the handler of the request makes of the given award
\* results and cash offers
RecommendationsFrom(results, cashFlights) ==
  LET flights == CombineFrom(variant, <<>>, results, cashFlights, Party(req),
                             req.trip_type, req.returnDate)
      filtered == filteredFlights(variant, flights, req.nonstop, req.arrival_departure)
  IN  {recommendationsOf(points, cashRecommendation(cashFlights, req.nonstop)) :
         points \in pointsRecommendations(variant, filtered, req.points_balance)}

\* C14 as stated: a failed award or cash query yields an empty result for
\* that query only and does not abort the request: the response is a success
\* and recommends what the cabins whose queries succeeded give by themselves.
C14_OtherCabinsReturned ==
  (AllSettled /\ ~IsGet(variant)) =>
    /\ response.status = 200
    /\ \A i \in DOMAIN cashFlightsNested :
         FailedCall("cash", i) => cashFlightsNested[i].flights = <<>>
    /\ Recommendations \in
         RecommendationsFrom(
           Keep(seatsAeroResults,
                {i \in DOMAIN seatsAeroResults : ~FailedCall("award", i)}),
           CashFlightsOf(Keep(cashFlightsNested,
                {i \in DOMAIN cashFlightsNested : ~FailedCall("cash", i)})))

\* the request found no token and its token acquisition failed
AuthFailed == pc = "done" /\ TokenCall \in issued /\ amadeusToken = ""

\* the outcome the caller sees on an authentication failure
IsAuthOutcome(r) == r.status = 500 /\ r.body.details = "Failed to get Amadeus token"

\* C15: when no token is cached and token acquisition fails, the request
\* ends in the authentication-failure outcome and no cash or award query is
\* issued for it; no request that ends otherwise (no match, offers, a
\* rejected input, another internal error) has that outcome.
C15_AuthFailureDistinct ==
  pc = "done" =>
    /\ AuthFailed => IsAuthOutcome(response) /\ issued = {TokenCall}
    /\ ~AuthFailed => ~IsAuthOutcome(response)

C15_Witness ==
  /\ AuthFailed
  /\ variant = "flight-search"
  /\ IsAuthOutcome(response)
  /\ issued = {TokenCall}

\* C16 as stated: on every endpoint a request with malformed input (origin
\* or destination not of 3 characters, a date not in YYYY-MM-DD form, a
\* round trip without returnDate) causes no upstream call: no token
\* acquisition, no cash query, no award query.
C16_RejectedBeforeUpstream ==
  (pc # "idle" /\ Rejection(variant, req) # NoResponse) => issued = {}

\* C17 as stated: the k cash queries and the k award queries of a request
\* are issued together: while a cash query is in flight, every award query
\* of the request has been issued, and the reverse.
C17_AllIssuedTogether ==
  /\ (\E i \in DOMAIN cashFlightsNested : InFlight(CashCall(i))) =>
       \A j \in DOMAIN seatsAeroResults : AwardCall(j) \in issued
  /\ (\E j \in DOMAIN seatsAeroResults : InFlight(AwardCall(j))) =>
       \A i \in DOMAIN cashFlightsNested : CashCall(i) \in issued

\* a cash or award query of the request has not completed or failed yet
SomeQueryInFlight == \E c \in issued : c.kind # "token" /\ InFlight(c)

\* C18: the matching and ranking step starts only after every cash query
\* and every award query of the request has completed or failed: while a
\* query is in flight nothing is combined or answered, and an answer is made
\* of the complete result sets.
C18_CombineAfterAll ==
  /\ SomeQueryInFlight => (allFlights = <<>> /\ response.status # 200)
  /\ Answered =>
       /\ Len(cashFlightsNested) = CashCalls(variant, req)
       /\ Len(seatsAeroResults) = Len(req.preferred_cabin)
       /\ \A i \in DOMAIN cashFlightsNested :
            CashCall(i) \in issued /\ ~InFlight(CashCall(i)) /\ cashFlightsNested[i].done
       /\ \A i \in DOMAIN seatsAeroResults :
            AwardCall(i) \in issued /\ ~InFlight(AwardCall(i)) /\ seatsAeroResults[i].done
       /\ Recommendations \in RecommendationsFrom(seatsAeroResults, CashFlights)

C18_Witness ==
  /\ Answered
  /\ variant = "flight-search"
  /\ Len(req.preferred_cabin) = 2
  /\ Len(settled) = 4
  /\ Len(PointsRecs) > 0

\* the results of the calls of a kind, each at the index of its call,
\* whatever the order they settled in
ByCall(kind, n) ==
  [i \in 1..n |->
     settled[CHOOSE k \in DOMAIN settled :
               settled[k].kind = kind /\ settled[k].call = i].result]

\* position in `settled` of a call
SettledAt(c) ==
  CHOOSE k \in DOMAIN settled : settled[k].kind = c.kind /\ settled[k].call = c.call

\* C19: for fixed upstream responses the recommendations do not depend on
\* the order in which the per-cabin cash and award queries complete: they
\* are the one value determined by the result of each call taken at the
\* position of its cabin.
C19_OrderIndependent ==
  Answered =>
    LET recs == RecommendationsFrom(
                  ByCall("award", Len(req.preferred_cabin)),
                  CashFlightsOf(ByCall("cash", CashCalls(variant, req))))
    IN  recs = {Recommendations}

\* a response with points recommendations to a request over two cabins whose
\* second cabin's queries completed before the first cabin's
C19_Witness ==
  /\ Answered
  /\ variant = "flight-search"
  /\ Len(req.preferred_cabin) = 2
  /\ SettledAt(CashCall(2)) < SettledAt(CashCall(1))
  /\ SettledAt(AwardCall(2)) < SettledAt(AwardCall(1))
  /\ Len(PointsRecs) > 0

-----------------------------------------------------------------------------
(* SpecPair: two requests served concurrently.  Node runs one continuation
   at a time; at each await the other request's handler may run.  The
   variables hold the locals of the request whose continuation runs, `other`
   those of the suspended one; amadeusToken is the one module-level
   variable. *)

\* the locals of the running handler invocation
Locals ==
  [variant |-> variant, req |-> req, pc |-> pc,
   cashFlightsNested |-> cashFlightsNested, seatsAeroResults |-> seatsAeroResults,
   allFlights |-> allFlights, response |-> response,
   issued |-> issued, settled |-> settled, sentToken |-> sentToken]

\* a resumed invocation whose cash results are in a variable of the module
ResumedShared(saved, current) ==
  [saved EXCEPT !.cashFlightsNested = current.cashFlightsNested]

\* the locals a suspended invocation resumes with: its own (they are
\* declared inside the handler)
Resumed(saved, current) == saved

\* the event loop turns to the other request
Switch ==
  /\ other # NoOther
  /\ LET next == Resumed(other, Locals)
     IN  /\ variant' = next.variant
         /\ req' = next.req
         /\ pc' = next.pc
         /\ cashFlightsNested' = next.cashFlightsNested
         /\ seatsAeroResults' = next.seatsAeroResults
         /\ allFlights' = next.allFlights
         /\ response' = next.response
         /\ issued' = next.issued
         /\ settled' = next.settled
         /\ sentToken' = next.sentToken
  /\ other' = Locals
  /\ UNCHANGED <<amadeusToken, acquired, timers>>

NextPair(U) == Next(U) \/ Switch

InitPair ==
  /\ variant = "flight-search"
  /\ req = [none |-> TRUE]
  /\ pc = "idle"
  /\ amadeusToken = ""
  /\ acquired = 0
  /\ timers = {}
  /\ sentToken = {}
  /\ cashFlightsNested = <<>>
  /\ seatsAeroResults = <<>>
  /\ allFlights = <<>>
  /\ response = NoResponse
  /\ issued = {}
  /\ settled = <<>>
  /\ other = [variant |-> "flight-search", req |-> [none |-> TRUE], pc |-> "idle",
              cashFlightsNested |-> <<>>, seatsAeroResults |-> <<>>,
              allFlights |-> <<>>, response |-> NoResponse,
              issued |-> {}, settled |-> <<>>, sentToken |-> {}]

\* one-way requests for one cabin; the sources answer the economy queries
\* with AA and the business queries with BA
PairRequests ==
  {Request(v, "JFK", "one-way", nullStr, 1, 0, <<c>>, FALSE, "flexible", b) :
     v \in Variants, c \in {"economy", "business"}, b \in {LowBalance, HighBalance}}

AirlineOf(cabin) == IF ToUpperCase(cabin) = "ECONOMY" THEN "AA" ELSE "BA"

UPair ==
  [requests |-> PairRequests,
   cash |-> [c \in {"ECONOMY", "BUSINESS"} |->
               Answers({Itinerary(AirlineOf(c), "10000.00", 2, "2025-06-01T08:00:00",
                                  nullStr)}, MaxRecords)],
   legs |-> {Failure},
   award |-> [c \in {"economy", "business"} |->
                Answers({Award(c, DepartureDate, FALSE, AirlineOf(c), 1, 1000, "USD",
                               "aeroplan")}, MaxRecords)],
   awardReturn |-> [c \in {"economy", "business"} |-> {Failure}],
   honoursNonStop |-> TRUE]

SpecPair == InitPair /\ [][NextPair(UPair)]_vars

\* the results a cash call of the running request can have, by its own
\* params and the answers to its own query
OwnCashResults(i) ==
  LET params == CashParams(variant, req, i)
      S == UPair.cash[params.travelClass]
  IN  IF variant = "flight-search"
      THEN {fetchCashFlights(a, params) : a \in S}
      ELSE {fetchCashFlightsRetry(
              [joint1 |-> j1, joint2 |-> j2, out1 |-> Failure, ret1 |-> Failure,
               out2 |-> Failure, ret2 |-> Failure], params) : j1 \in S, j2 \in S}

\* the same for an award call
OwnAwardResults(i) ==
  {getSeatsAeroFlights(variant, out, Failure, req.preferred_cabin[i], req.nonstop,
                       nullStr).outboundFlights :
     out \in UPair.award[req.preferred_cabin[i]]}

\* C20: with a second request served concurrently, the offers of every
\* normalizer call are those its own params and its own query's answer give,
\* the handler combines the results of its own calls only, and every offer
\* in a response is an offer of that request (of its cabin and the airline
\* its sources answered with).
C20_OwnOffersOnly ==
  /\ \A k \in DOMAIN settled :
       IF settled[k].kind = "cash"
       THEN settled[k].result.flights \in OwnCashResults(settled[k].call)
       ELSE settled[k].result.outboundFlights \in OwnAwardResults(settled[k].call)
  /\ \A i \in DOMAIN cashFlightsNested :
       cashFlightsNested[i].done =>
         \E k \in DOMAIN settled :
           /\ settled[k].kind = "cash" /\ settled[k].call = i
           /\ settled[k].result = cashFlightsNested[i]
  /\ \A i \in DOMAIN seatsAeroResults :
       seatsAeroResults[i].done =>
         \E k \in DOMAIN settled :
           /\ settled[k].kind = "award" /\ settled[k].call = i
           /\ settled[k].result = seatsAeroResults[i]
  /\ Answered =>
       \A i \in DOMAIN Recommendations :
         ~IsSentinel(Recommendations[i]) =>
           /\ Recommendations[i].airline = AirlineOf(req.preferred_cabin[1])
           /\ IsPoints(Recommendations[i]) =>
                Recommendations[i].cabin = req.preferred_cabin[1]

\* the award calls of an economy request and of a business request are in
\* flight together, each request holding the cash offers of its own call
C20_Witness ==
  /\ pc = "award"
  /\ other.pc = "award"
  /\ req.preferred_cabin = <<"economy">>
  /\ other.req.preferred_cabin = <<"business">>
  /\ InFlight(AwardCall(1))
  /\ Len(CashFlights) > 0
  /\ Len(CashFlightsOf(other.cashFlightsNested)) > 0

-----------------------------------------------------------------------------
(* SpecCabin: one request for one cabin, supported or not; the award source
   answers each cabin's query with one available record *)

CabinNames == {"economy", "business", "premiumeconomy", "suite", "constructor"}

CabinRequests ==
  {Request(v, "JFK", t, ReturnDate, 1, 0, <<c>>, ns, "flexible", b) :
     v \in Variants, t \in {"one-way", "round"}, c \in CabinNames,
     ns \in BOOLEAN, b \in {LowBalance, HighBalance}}

CabinAnswer(c, date) ==
  [ok |-> TRUE, data |-> <<Award(c, date, TRUE, "AA", 1, 1000, "USD", "aeroplan")>>]

UCabin ==
  [requests |-> CabinRequests,
   cash |-> [c \in {ToUpperCase(n) : n \in CabinNames} |->
               Answers({Itinerary("AA", "10000.00", 1, "2025-06-01T08:00:00",
                                  "2025-06-08T09:00:00")}, MaxRecords)],
   legs |-> {Failure},
   award |-> [c \in CabinNames |-> {CabinAnswer(c, DepartureDate)}],
   awardReturn |-> [c \in CabinNames |-> {CabinAnswer(c, ReturnDate)}],
   honoursNonStop |-> TRUE]

SpecCabin == InitIdle /\ [][Next(UCabin)]_vars

\* the offers the economy field mapping gives of the records the award
\* source answered the cabin's outbound query with
EconomyOffers(cabin) ==
  LET cf == cabinFieldsOwn(variant, cabin)
      kept == SelectSeq(CabinAnswer(cabin, DepartureDate).data,
                        LAMBDA f : AwardFilter(variant, f, cf, req.nonstop))
  IN  [j \in DOMAIN kept |-> AwardOffer(variant, kept[j], cf, cabin, req.nonstop)]

\* C21 as stated: for every cabin identifier that is not a supported cabin
\* the award normalizer reads exactly the economy field mapping, and the
\* request is answered (it does not fail because of the cabin).
C21_UnknownCabinEconomy ==
  /\ \A k \in DOMAIN settled :
       (/\ settled[k].kind = "award"
        /\ req.preferred_cabin[settled[k].call] \notin DOMAIN cabinMap(variant)) =>
         settled[k].result.outboundFlights =
           EconomyOffers(req.preferred_cabin[settled[k].call])
  /\ (pc = "done" /\ ~AuthFailed) => response.status = 200

-----------------------------------------------------------------------------
(* SpecExample: a one-way economy request JFK to LHR of one traveller with
   a sufficient balance; the award source answers with one available nonstop
   AA record of 60000 points and 5.60 USD of taxes, the cash source with one
   nonstop AA fare of 650.00 on the same date *)

ExampleBalances ==
  {[Amex |-> 60000, Chase |-> 0], [Amex |-> 0, Chase |-> 60000],
   [Amex |-> 30000, Chase |-> 30000], [Amex |-> 100000, Chase |-> 0],
   [Amex |-> 60000, Chase |-> 60000]}

ExampleRequests ==
  {Request(v, "JFK", "one-way", nullStr, 1, 0, <<"economy">>, ns, ad, b) :
     v \in Variants, ns \in BOOLEAN, ad \in {"flexible", "morning_departure"},
     b \in ExampleBalances}

ExampleAward ==
  [ok |-> TRUE,
   data |-> <<Award("economy", DepartureDate, TRUE, "AA", 60000, 560, "USD", "united")>>]

ExampleFare ==
  [ok |-> TRUE,
   data |-> <<Itinerary("AA", "650.00", 1, "2025-06-01T08:00:00", nullStr)>>]

UExample ==
  [requests |-> ExampleRequests,
   cash |-> [ECONOMY |-> {ExampleFare}],
   legs |-> {Failure},
   award |-> [economy |-> {ExampleAward}],
   awardReturn |-> [economy |-> {Failure}],
   honoursNonStop |-> TRUE]

SpecExample == InitIdle /\ [][Next(UExample)]_vars

\* C22 as stated: the response to the example request (asked with the
\* nonstop preference, which admits the nonstop record and fare) holds
\* exactly one points recommendation, with taxes_fees = 5.60,
\* points_used = 60000 and cpp = (650 - 5.60) / 60000 * 100.
C22_Example ==
  (Answered /\ req.nonstop) =>
    /\ Len(Recommendations) = 1
    /\ IsPoints(Recommendations[1])
    /\ Recommendations[1].taxes_fees = 560
    /\ Recommendations[1].points_used = 60000
    /\ Recommendations[1].cpp = Quot(65000 - 560, 60000)

-----------------------------------------------------------------------------
(* SpecCarrier: one request; the award source answers with records of the
   single carrier AA and of the carriers "AA,BA", the cash source with AA
   fares *)

CarrierRequests ==
  {Request(v, "JFK", t, ReturnDate, 1, 0, <<"economy">>, FALSE, ad, b) :
     v \in Variants, t \in {"one-way", "round"},
     ad \in {"flexible", "morning_departure"}, b \in {LowBalance, HighBalance}}

CarrierAwards(date) ==
  {Award("economy", date, FALSE, "AA", 1, 1000, "USD", "aeroplan"),
   Award("economy", date, FALSE, "AA,BA", 1, 1000, "USD", "aeroplan")}

UCarrier ==
  [requests |-> CarrierRequests,
   cash |-> [ECONOMY |->
               Answers({Itinerary("AA", "10000.00", 2, "2025-06-01T08:00:00",
                                  "2025-06-08T09:00:00")}, MaxRecords)],
   legs |-> {Failure},
   award |-> [economy |-> Answers(CarrierAwards(DepartureDate), MaxRecords)],
   awardReturn |-> [economy |-> Answers(CarrierAwards(ReturnDate), MaxRecords)],
   honoursNonStop |-> TRUE]

SpecCarrier == InitIdle /\ [][Next(UCarrier)]_vars

\* the award offers of the request's queries
OutboundOffers ==
  UNION {Range(seatsAeroResults[i].outboundFlights) : i \in DOMAIN seatsAeroResults}
ReturnOffers ==
  UNION {Range(seatsAeroResults[i].returnFlights) : i \in DOMAIN seatsAeroResults}

\* C23: matching compares the airline key by whole-string equality: a
\* candidate that carries the price and time of a cash offer has exactly that
\* cash offer's airline key, and a candidate joined with a return offer has
\* exactly that return offer's airline key; an offer keyed "AA,BA" is never
\* given the price, the times or the return leg of "AA".
C23_WholeStringMatch ==
  Answered =>
    \A i \in DOMAIN allFlights :
      /\ allFlights[i].departure_time # "N/A" =>
           \E j \in DOMAIN CashFlights :
             /\ CashFlights[j].airline = allFlights[i].airline
             /\ CashFlights[j].cash_price = allFlights[i].cash_price
             /\ CashFlights[j].departure_time = allFlights[i].departure_time
      /\ req.trip_type = "round" =>
           \E ret \in ReturnOffers :
             /\ ret.airline = allFlights[i].airline
             /\ ret.departure_date = allFlights[i].return_date
      /\ IncludesComma(allFlights[i].airline) =>
           \A j \in DOMAIN CashFlights :
             CashFlights[j].cash_price # allFlights[i].cash_price

\* a multi-carrier award offer and a fare of its first carrier, of the same
\* date and nonstop flag, were at hand and the offer is not a candidate
C23_Witness ==
  /\ Answered
  /\ variant = "flight-search"
  /\ \E o \in OutboundOffers :
       /\ o.airline = "AA,BA"
       /\ \E j \in DOMAIN CashFlights :
            /\ CashFlights[j].airline = "AA"
            /\ CashFlights[j].departure_date = o.departure_date
            /\ CashFlights[j].nonstop = o.direct
  /\ allFlights = <<>>


\* ---------------------------------------------------------------------
\* Retrying cash normalizer (src/unnamed/part_000 195-264)

JointQueries(c) == SelectSeq(c.queries, LAMBDA q : q.kind = "joint")

RetryingCashCalls ==
  {k \in DOMAIN settled : settled[k].kind = "cash" /\ variant # "flight-search"}

\* C24: in the retrying cash normalizer the second, connections-allowed
\* joint query is issued only when the first one was a strict nonstop query
\* that returned no itinerary or failed; a first query that returned an
\* itinerary is not retried; at most two joint queries are issued per call.
C24_RetryOnlyAfterStrictNonstop ==
  \A k \in RetryingCashCalls :
    LET J == JointQueries(settled[k])
    IN  /\ Len(J) \in {1, 2}
        /\ J[1].some => Len(J) = 1
        /\ Len(J) = 2 => /\ J[1].nonStop
                         /\ ~J[1].some
                         /\ ~J[2].nonStop


\* the fares the one-way queries of one kind returned to a cash call
Fares(c, kind) ==
  UNION {c.queries[n].fares : n \in {m \in DOMAIN c.queries : c.queries[m].kind = kind}}

FallbackEntered(c) == \E n \in DOMAIN c.queries : c.queries[n].kind = "outbound"

\* the combined itineraries of a cash call made of outbound fare o and
\* return fare r
CombinedFrom(c, o, r) ==
  {i \in DOMAIN c.result.flights :
     /\ c.result.flights[i].airline = o.airline
     /\ c.result.flights[i].cash_price = o.cash_price + r.cash_price
     /\ c.result.flights[i].departure_time = o.departure_time
     /\ c.result.flights[i].departure_date = o.departure_date
     /\ c.result.flights[i].return_departure_time = r.departure_time
     /\ c.result.flights[i].return_date = r.departure_date}

\* C25: in the earlier fetchCashFlights the two-one-way fallback is entered
\* only when the joint round-trip queries returned no itinerary; each
\* combined itinerary pairs an outbound and a return fare of the same
\* airline and costs the sum of the two; each (outbound fare, return fare)
\* pair of the upstream results is combined at most once.
C25_OneWayFallback ==
  \A k \in RetryingCashCalls :
    LET c == settled[k]
        J == JointQueries(c)
        outs == Fares(c, "outbound")
        rets == Fares(c, "return")
    IN  FallbackEntered(c) =>
          /\ req.trip_type = "round"
          /\ \A n \in DOMAIN J : ~J[n].some
          /\ \A i \in DOMAIN c.result.flights :
               \E o \in outs, r \in rets :
                 /\ o.airline = r.airline
                 /\ i \in CombinedFrom(c, o, r)
          /\ \A o \in outs, r \in rets : Cardinality(CombinedFrom(c, o, r)) <= 1


\* ---------------------------------------------------------------------
\* Round trips over several cabins (index.ts 434-574, part_000 821-919)

\* the candidates after the first n award results have been processed
CandidatesAfter(results, n) ==
  CombineFrom(variant, <<>>, SubSeq(results, 1, n), CashFlights, Party(req),
              req.trip_type, req.returnDate)

SameOffer(a, b) ==
  /\ a.airline = b.airline
  /\ a.program = b.program
  /\ a.cabin = b.cabin
  /\ a.departure_date = b.departure_date

Backwards(s) == [i \in DOMAIN s |-> s[Len(s) + 1 - i]]

\* C26: on a round trip over several cabins, an offer joined with its return
\* leg while an earlier cabin was processed is still a candidate, with the
\* same points_used and taxes_fees, after all later cabins were processed,
\* and the set of candidates is the same for the cabins in the other order.
C26_EarlierCabinsKept ==
  (Answered /\ req.trip_type = "round") =>
     /\ \A n \in DOMAIN seatsAeroResults :
          LET early == CandidatesAfter(seatsAeroResults, n)
          IN  \A i \in DOMAIN early :
                \E j \in DOMAIN allFlights :
                  /\ SameOffer(allFlights[j], early[i])
                  /\ allFlights[j].points_used = early[i].points_used
                  /\ allFlights[j].taxes_fees = early[i].taxes_fees
     /\ Range(allFlights) =
          Range(CandidatesAfter(Backwards(seatsAeroResults), Len(seatsAeroResults)))


-----------------------------------------------------------------------------
(* SpecToken: two requests served concurrently while the expiry timers of
   the token acquisitions fire.  A timer callback is a task of its own: it
   runs between continuations, never inside one. *)

\* the callback of setTimeout(() => (amadeusToken = ""), expires_in * 1000)
\* of one acquisition runs
Expire ==
  /\ \E n \in timers : timers' = timers \ {n}
  /\ amadeusToken' = ""
  /\ UNCHANGED <<variant, req, pc, cashFlightsNested, seatsAeroResults, allFlights,
                 response, issued, settled, other, acquired, sentToken>>

NextToken(U) == Next(U) \/ Switch \/ Expire

SpecToken == InitPair /\ [][NextToken(UPair)]_vars

\* C27: the expiry timer started by one token acquisition clears only the
\* token that acquisition stored: the token stored by a later acquisition
\* stays cached as long as its own expiry timer has not fired.
C27_OwnTimerOnly ==
  \A n \in timers : n = acquired => amadeusToken = TokenOf(n)

\* C28: every cash-fare query of the handlers carries a non-empty token,
\* whatever the interleaving of the requests and of the expiry timers: the
\* token is not cleared between the handler's test or acquisition of it and
\* the reading of it for the cash queries.
C28_TokenNonEmpty ==
  /\ "" \notin sentToken
  /\ other.pc # "none" => "" \notin other.sentToken

\* a request whose cash query is in flight with the token it read, while the
\* timer has cleared the cached token and the other request is being served
C28_Witness ==
  /\ pc = "cash"
  /\ sentToken = {TokenOf(2)}
  /\ amadeusToken = ""
  /\ other.pc = "cash"
  /\ other.sentToken = {TokenOf(1)}


-----------------------------------------------------------------------------
(* SpecRespond: one request of any endpoint for one cabin, well-formed or
   malformed, with every upstream call returning or failing in the end *)

RespondRequests ==
  {r \in WellFormed : Len(r.body.preferred_cabin) = 1} \cup Malformed

URespond == [UFault EXCEPT !.requests = RespondRequests, !.legs = {Failure}]

SpecRespond ==
  /\ InitServing
  /\ [][Next(URespond)]_vars
  /\ WF_vars(TokenResolved \/ TokenRejected)
  /\ WF_vars(CashDone(URespond))
  /\ WF_vars(AwardDone(URespond))

\* a response has been sent
Responded == response # NoResponse

\* C29: every request receives exactly one response on every path: none
\* while the handler is at work, one when it ends, and a response once sent
\* is not followed by another; and when each upstream call returns or fails
\* in the end, the response is sent in the end.
C29_ExactlyOneResponse ==
  /\ [](Responded <=> pc = "done")
  /\ [][Responded => response' = response]_vars
  /\ (pc # "idle") ~> Responded

\* the handler has answered after its token request failed
C29_Witness ==
  /\ pc = "done"
  /\ variant = "recommend"
  /\ response = ServerError(TokenFailure)

=============================================================================
